---- MODULE Spec2Model ----
(***************************************************************************)
(* Model of advanced-vector/vector.h: RawMemory<T>, an owned block of      *)
(* uninitialized slots, and Vector<T>, which tracks how many slots of its  *)
(* block hold constructed elements.                                        *)
(*                                                                         *)
(* A block is the sequence of its slots; slot i of the code is blk[i + 1]. *)
(* The null buffer is the empty sequence.  Which block a Vector points to  *)
(* is recorded per operation: last.prov[v] names the Vector whose block v  *)
(* holds after the operation, "new" for a block the operation allocated    *)
(* and "null" for no block.                                                *)
(*                                                                         *)
(* Every public operation is one action.  An element operation that can    *)
(* throw (construction from arguments, value construction, copy            *)
(* construction, copy assignment, and move construction when the element   *)
(* type's move constructor is not noexcept) is an input of the action:     *)
(* `why` names the operation that throws and `k` how many elements the     *)
(* running algorithm handled before it.  Element move assignment is taken  *)
(* not to throw.  Emplace is modelled with its arguments forwarded to      *)
(* Relocate (line 258 writes std::forward(args)..., which only an empty    *)
(* argument pack instantiates).                                            *)
(***************************************************************************)
EXTENDS Integers, Sequences, FiniteSets, TLC

\* Largest capacity of a block, and of the blocks of all Vectors together.
MaxCap == 4

\* The Vector objects of the program.
Vec == {"a", "b"}

Other(v) == CHOOSE w \in Vec : w # v

\* A slot of a block: raw memory, or a live element with a value.  Value 0 is
\* T().  The operations never look at a value, so two values tell any two
\* elements apart.  Indet is a live element whose value is unspecified
\* (moved-from, or read from memory that holds no object).
Raw == 0 - 1
Indet == 0 - 2
Val == {0, 1}
Null == << >>

\* An argument of EmplaceBack/PushBack and Emplace/Insert: a value, or a
\* reference to element i of the Vector the operation runs on (const T&
\* bound to data_[i]).
RefTo(i) == 0 - 3 - i

IsRef(x) == x <= 0 - 3

RefIndex(x) == 0 - 3 - x

\* The element types: is_nothrow_move_constructible_v<T> and
\* is_copy_constructible_v<T>, the two traits CopyOrMove branches on.  A type
\* with a noexcept move constructor is relocated by moves that cannot throw:
\* its runs are the runs of the first type below in which no relocation
\* fails (a move followed by the destruction of its source leaves what a copy
\* followed by it leaves), so it adds no behaviour.
ElemTypes ==
    { [nothrow_move |-> FALSE, copyable |-> TRUE],
      [nothrow_move |-> FALSE, copyable |-> FALSE] }

VARIABLES
    T,          \* the element type's traits
    alive,      \* alive[v]: Vector v is constructed and not yet destroyed
    buffer_,    \* buffer_[v]: the block data_.buffer_ of v points to, or Null
    capacity_,  \* capacity_[v]: data_.capacity_ of v
    size_,      \* size_[v]
    last        \* the operation that produced this state

vars == <<T, alive, buffer_, capacity_, size_, last>>

--------------------------------------------------------------------------
(* Slots and the std:: algorithms on uninitialized memory. *)

Live(s) == s # Raw

Read(s) == IF s = Raw THEN Indet ELSE s

\* Some slot among [off, off + n) of blk holds a live element.
LiveIn(blk, off, n) == \E i \in off..(off + n - 1) : Live(blk[i + 1])

AnyLive(blk) == LiveIn(blk, 0, Len(blk))

\* new (blk + i) T(x), and blk[i] = x
PutAt(blk, i, x) == [blk EXCEPT ![i + 1] = x]

\* The value T(std::forward<Args>(args)...) has when it is built from x
\* while the Vector's block is blk: a reference is read then.
Arg(x, blk) == IF IsRef(x) THEN Read(blk[RefIndex(x) + 1]) ELSE x

\* A faulty destroy_n that destroys the first element of the range only.
destroy_n_first(blk, off, n) ==
    [j \in DOMAIN blk |-> IF j - 1 = off /\ n > 0 THEN Raw ELSE blk[j]]

destroy_n(blk, off, n) ==
    [j \in DOMAIN blk |->
        IF j - 1 >= off /\ j - 1 < off + n THEN Raw ELSE blk[j]]

\* A faulty uninitialized_copy_n that leaves the copies it made when a
\* construction throws.
uninitialized_copy_n_no_rollback(src, foff, n, dst, toff, k) ==
    [j \in DOMAIN dst |->
        IF j - 1 >= toff /\ j - 1 < toff + k
        THEN Read(src[j - toff + foff])
        ELSE dst[j]]

\* A faulty uninitialized_copy_n that value-constructs the elements instead
\* of copying them.
uninitialized_copy_n_value(src, foff, n, dst, toff, k) ==
    [j \in DOMAIN dst |->
        IF j - 1 >= toff /\ j - 1 < toff + k
        THEN (IF k = n THEN 0 ELSE Raw)
        ELSE dst[j]]

\* A faulty uninitialized_copy_n that never advances in the source: every
\* copy is a copy of the first element.
uninitialized_copy_n_first(src, foff, n, dst, toff, k) ==
    [j \in DOMAIN dst |->
        IF j - 1 >= toff /\ j - 1 < toff + k
        THEN (IF k = n THEN Read(src[foff + 1]) ELSE Raw)
        ELSE dst[j]]

\* Copies n elements of src into dst; when constructing element k < n
\* throws, the k copies already made are destroyed before the exception
\* leaves.
uninitialized_copy_n(src, foff, n, dst, toff, k) ==
    [j \in DOMAIN dst |->
        IF j - 1 >= toff /\ j - 1 < toff + k
        THEN (IF k = n THEN Read(src[j - toff + foff]) ELSE Raw)
        ELSE dst[j]]

\* The sources of uninitialized_move_n: the k moved from are unspecified.
MovedFrom(src, foff, k) ==
    [j \in DOMAIN src |->
        IF j - 1 >= foff /\ j - 1 < foff + k /\ Live(src[j])
        THEN Indet ELSE src[j]]

\* A faulty std::move that moves nothing.
move_nothing(blk, first, lst, d_first) == blk

\* std::move(first, last, d_first) within one block, d_first <= first: the
\* destination takes the sources in order, a source not overwritten is left
\* moved-from.
move(blk, first, lst, d_first) ==
    [j \in DOMAIN blk |->
        IF j - 1 >= d_first /\ j - 1 < d_first + (lst - first)
        THEN Read(blk[j - d_first + first])
        ELSE IF j - 1 >= first /\ j - 1 < lst /\ Live(blk[j])
        THEN Indet ELSE blk[j]]

\* std::move_backward(first, last, d_last) within one block, d_last >= last.
move_backward(blk, first, lst, d_last) ==
    [j \in DOMAIN blk |->
        IF j - 1 >= d_last - (lst - first) /\ j - 1 < d_last
        THEN Read(blk[j - (d_last - (lst - first)) + first])
        ELSE IF j - 1 >= first /\ j - 1 < lst /\ Live(blk[j])
        THEN Indet ELSE blk[j]]

\* new (blk + to) T(std::move(blk[from]))
MoveConstructAt(blk, from, to) ==
    [j \in DOMAIN blk |->
        IF j - 1 = to THEN Read(blk[from + 1])
        ELSE IF j - 1 = from /\ Live(blk[j]) THEN Indet ELSE blk[j]]

\* dst[i] = src[i] for the k first elements
CopyAssignPrefix(src, dst, k) ==
    [j \in DOMAIN dst |-> IF j <= k THEN Read(src[j]) ELSE dst[j]]

\* A faulty uninitialized_value_construct_n that leaves the elements it
\* built when a construction throws.
uninitialized_value_construct_n_no_rollback(dst, off, n, k) ==
    [j \in DOMAIN dst |->
        IF j - 1 >= off /\ j - 1 < off + k THEN 0 ELSE dst[j]]

uninitialized_value_construct_n(dst, off, n, k) ==
    [j \in DOMAIN dst |->
        IF j - 1 >= off /\ j - 1 < off + k
        THEN (IF k = n THEN 0 ELSE Raw)
        ELSE dst[j]]

--------------------------------------------------------------------------
(* RawMemory *)

\* RawMemory(capacity): Allocate gives n raw slots, nullptr for n = 0.
Allocate(n) == [j \in 1..n |-> Raw]

\* ~RawMemory: operator delete does not look at the slots; an element still
\* live in the block is never destroyed.
DeallocateLoses(blk) == AnyLive(blk)

--------------------------------------------------------------------------
(* Vector: private helpers *)

UsesMove == T.nothrow_move \/ ~T.copyable

\* The element operation CopyOrMove relocates with.
RelocWhy == IF UsesMove THEN "move" ELSE "copy"

\* A faulty CopyOrMove that moves whatever the element type's traits are.
CopyOrMove_always_move(src, foff, n, dst, toff, k) ==
    LET to == uninitialized_copy_n(src, foff, n, dst, toff, k)
        from == MovedFrom(src, foff, k)
    IN  [to |-> to,
         from |-> IF k < n THEN from ELSE destroy_n(from, foff, n),
         lost |-> LiveIn(dst, toff, k)]

\* CopyOrMove(from, size, to): the two blocks afterwards.  k < n: relocating
\* element k throws and destroy_n is not reached.
CopyOrMove(src, foff, n, dst, toff, k) ==
    LET to == uninitialized_copy_n(src, foff, n, dst, toff, k)
        from == IF UsesMove THEN MovedFrom(src, foff, k) ELSE src
    IN  [to |-> to,
         from |-> IF k < n THEN from ELSE destroy_n(from, foff, n),
         lost |-> LiveIn(dst, toff, k)]

\* A failure f is <<why, k>>: the element operation that throws and the
\* number of elements handled before it; NoFail when nothing throws.
NoFail == <<"none", 0>>

Why(f) == f[1]

At(f) == f[2]

\* The failures of a step that allocates: operator new throws.
AllocFails == {<<"alloc", 0>>}

\* The failures of constructing the new element from the arguments.
CtorFails == {<<"ctor", 0>>}

\* The failures of an algorithm that runs element operation why over n
\* elements.
ElemFails(why, n) == {why} \X (0..(n - 1))

\* The failures of CopyOrMove over n elements: none when the move
\* constructor is noexcept.
RelocFails(n) == IF T.nothrow_move THEN {} ELSE ElemFails(RelocWhy, n)

\* A faulty growth policy that makes room for one more element only.
GrowCap_by_one(size) == size + 1

GrowCap(size) == IF size = 0 THEN 1 ELSE size * 2

\* The bound on the heap: v may be given a block of n slots.
Fits(v, n) == n + capacity_[Other(v)] <= MaxCap

Keep == [v \in Vec |-> IF buffer_[v] = Null THEN "null" ELSE v]

\* The record of an operation: its name, the Vector it ran on and its other
\* operand, the failure it met, how it ended ("ok", "throw", "crash"), the
\* position it returned, where each Vector's block comes from, and whether it
\* reused or released the storage of an element that was never destroyed.
\* (n and x, the operation's arguments, are not recorded.)
Label(op, v, o, n, x, f, out, ret, prov, lost) ==
    [op |-> op, v |-> v, o |-> o, why |-> Why(f),
     k |-> At(f), out |-> out, ret |-> ret, prov |-> prov, lost |-> lost]

Running == last.out # "crash"

\* The class invariant of Vector: size_ <= Capacity(), the slots below size_
\* hold elements and the slots from size_ on hold none.
ClassInvariant(v) ==
    /\ size_[v] <= capacity_[v]
    /\ Len(buffer_[v]) = capacity_[v]
    /\ \A i \in 0..(size_[v] - 1) : Live(buffer_[v][i + 1])
    /\ \A i \in size_[v]..(capacity_[v] - 1) : ~Live(buffer_[v][i + 1])

\* Every element of v has a value the program gave it.
Definite(v) == \A i \in 0..(size_[v] - 1) : buffer_[v][i + 1] # Indet

\* An operation is called on Vectors that are alive, satisfy the class
\* invariant and hold no element of unspecified value; a Vector that a failed
\* operation left otherwise is followed to its destruction only.
Callable(v) == Running /\ alive[v] /\ ClassInvariant(v) /\ Definite(v)

\* The operation on v ends: v's fields and the record of the operation.
Commit(v, buf, cap, size, lbl) ==
    /\ buffer_' = [buffer_ EXCEPT ![v] = buf]
    /\ capacity_' = [capacity_ EXCEPT ![v] = cap]
    /\ size_' = [size_ EXCEPT ![v] = size]
    /\ last' = lbl
    /\ UNCHANGED <<T, alive>>

\* The operation on v throws and v is as it was.
Unchanged(v, lbl) == Commit(v, buffer_[v], capacity_[v], size_[v], lbl)

\* The operation on v and o ends.
Commit2(v, bufv, capv, sizev, o, bufo, capo, sizeo, lbl) ==
    /\ buffer_' = [buffer_ EXCEPT ![v] = bufv, ![o] = bufo]
    /\ capacity_' = [capacity_ EXCEPT ![v] = capv, ![o] = capo]
    /\ size_' = [size_ EXCEPT ![v] = sizev, ![o] = sizeo]
    /\ last' = lbl
    /\ UNCHANGED <<T, alive>>

--------------------------------------------------------------------------
(* Vector: operations *)

Init ==
    /\ T \in ElemTypes
    /\ alive = [v \in Vec |-> TRUE]
    /\ buffer_ = [v \in Vec |-> Null]
    /\ capacity_ = [v \in Vec |-> 0]
    /\ size_ = [v \in Vec |-> 0]
    /\ last = Label("Vector", "a", "b", 0, 0, NoFail, "ok", 0,
                    [v \in Vec |-> "null"], FALSE)

\* Vector() = default, for a Vector whose lifetime has ended
DefaultCtor(v) ==
    /\ Running /\ ~alive[v]
    /\ alive' = [alive EXCEPT ![v] = TRUE]
    /\ last' = Label("Vector", v, v, 0, 0, NoFail, "ok", 0, Keep, FALSE)
    /\ UNCHANGED <<T, buffer_, capacity_, size_>>

\* The block of v after a constructor that built n elements.
Built(v, n) == [Keep EXCEPT ![v] = IF n = 0 THEN "null" ELSE "new"]

\* A constructor of v ends: by an exception, and v never lived, or with v
\* alive and holding block buf of n elements.
Constructed(v, n, buf, f, thrown, done) ==
    IF f # NoFail
    THEN /\ last' = thrown
         /\ UNCHANGED <<T, alive, buffer_, capacity_, size_>>
    ELSE /\ alive' = [alive EXCEPT ![v] = TRUE]
         /\ buffer_' = [buffer_ EXCEPT ![v] = buf]
         /\ capacity_' = [capacity_ EXCEPT ![v] = n]
         /\ size_' = [size_ EXCEPT ![v] = n]
         /\ last' = done
         /\ UNCHANGED T

\* explicit Vector(size_t size).  When a value construction throws, the
\* algorithm has destroyed what it built (partial) and ~RawMemory releases
\* the block.
SizedCtor(v, n, f) ==
    /\ Running /\ ~alive[v]
    /\ Fits(v, n)
    /\ f \in {NoFail} \cup (IF n # 0 THEN AllocFails ELSE {})
             \cup ElemFails("value", n)
    /\ LET lbl(out, prov, lost) ==
               Label("Vector(n)", v, v, n, 0, f, out, 0, prov, lost)
           partial == uninitialized_value_construct_n(Allocate(n), 0, n,
                                                      At(f))
       IN  Constructed(v, n,
               uninitialized_value_construct_n(Allocate(n), 0, n, n), f,
               lbl("throw", Keep, DeallocateLoses(partial)),
               lbl("ok", Built(v, n), FALSE))

\* Vector(const Vector& other)
CopyCtor(v, o, f) ==
    /\ Callable(o) /\ ~alive[v] /\ T.copyable
    /\ Fits(v, size_[o])
    /\ f \in {NoFail} \cup (IF size_[o] # 0 THEN AllocFails ELSE {})
             \cup ElemFails("copy", size_[o])
    /\ LET n == size_[o]
           lbl(out, prov, lost) ==
               Label("Vector(copy)", v, o, 0, 0, f, out, 0, prov, lost)
           partial == uninitialized_copy_n(buffer_[o], 0, n, Allocate(n), 0,
                                           At(f))
       IN  Constructed(v, n,
               uninitialized_copy_n(buffer_[o], 0, n, Allocate(n), 0, n),
               f, lbl("throw", Keep, DeallocateLoses(partial)),
               lbl("ok", Built(v, n), FALSE))

\* RawMemory(RawMemory&& other) noexcept: this takes the block, other is
\* left with nullptr and capacity 0.
RawMemoryMoveCtor(other) ==
    [buffer_ |-> buffer_[other], capacity_ |-> capacity_[other],
     other_buffer_ |-> Null, other_capacity_ |-> 0]

\* Vector(Vector&& other) noexcept
MoveCtor(v, o) ==
    /\ Callable(o) /\ ~alive[v]
    /\ LET d == RawMemoryMoveCtor(o)
       IN  /\ alive' = [alive EXCEPT ![v] = TRUE]
           /\ buffer_' = [buffer_ EXCEPT ![v] = d.buffer_,
                                         ![o] = d.other_buffer_]
           /\ capacity_' = [capacity_ EXCEPT ![v] = d.capacity_,
                                             ![o] = d.other_capacity_]
           /\ size_' = [size_ EXCEPT ![v] = size_[o], ![o] = 0]
           /\ last' = Label("Vector(move)", v, o, 0, 0, NoFail, "ok", 0,
                            [Keep EXCEPT ![v] = Keep[o], ![o] = "null"],
                            FALSE)
           /\ UNCHANGED T

\* A faulty RawMemory move assignment that takes nothing from other (the
\* test this != &other inverted).
RawMemoryMoveAssign_nothing(this, other) ==
    [buffer_ |-> buffer_[this], capacity_ |-> capacity_[this],
     other_buffer_ |-> buffer_[other], other_capacity_ |-> capacity_[other]]

\* RawMemory& operator=(RawMemory&& other) noexcept: the two swap.
RawMemoryMoveAssign(this, other) ==
    [buffer_ |-> buffer_[other], capacity_ |-> capacity_[other],
     other_buffer_ |-> buffer_[this], other_capacity_ |-> capacity_[this]]

\* Vector& operator=(Vector&& rhs) noexcept
MoveAssign(v, o) ==
    /\ Callable(v) /\ Callable(o)
    /\ LET d == RawMemoryMoveAssign(v, o)
           lbl(prov) ==
               Label("operator=(move)", v, o, 0, 0, NoFail, "ok", 0, prov,
                     FALSE)
       IN  IF v # o
           THEN Commit2(v, d.buffer_, d.capacity_, size_[o],
                        o, d.other_buffer_, d.other_capacity_, 0,
                        lbl([Keep EXCEPT ![v] = Keep[o], ![o] = Keep[v]]))
           ELSE Unchanged(v, lbl(Keep))

\* Vector& operator=(const Vector& rhs)
CopyAssign(v, o, f) ==
    /\ Callable(v) /\ Callable(o) /\ T.copyable
    /\ LET size == size_[v]
           rsize == size_[o]
           buf == buffer_[v]
           rhs == buffer_[o]
           min == IF size < rsize THEN size ELSE rsize
           rhs_copy == uninitialized_copy_n(rhs, 0, rsize, Allocate(rsize),
                                            0, rsize)
           shrunk == IF size > rsize
                     THEN destroy_n(buf, rsize, size - rsize) ELSE buf
           prefix == CopyAssignPrefix(rhs, shrunk, min)
           lbl(out, prov, lost) ==
               Label("operator=(copy)", v, o, 0, 0, f, out, 0, prov, lost)
       IN  IF v = o
           THEN /\ f = NoFail
                /\ Unchanged(v, lbl("ok", Keep, FALSE))
           ELSE IF rsize > capacity_[v]
           THEN /\ Fits(v, rsize)
                /\ \/ /\ f \in AllocFails \cup ElemFails("copy", rsize)
                      /\ Unchanged(v, lbl("throw", Keep, FALSE))
                   \/ /\ f = NoFail
                      /\ Commit(v, rhs_copy, rsize, rsize,
                                lbl("ok", [Keep EXCEPT ![v] = "new"],
                                    DeallocateLoses(destroy_n(buf, 0, size))))
           ELSE \/ /\ f \in ElemFails("assign", min)
                   /\ Commit(v, CopyAssignPrefix(rhs, shrunk, At(f)),
                             capacity_[v], size, lbl("throw", Keep, FALSE))
                \/ /\ f \in ElemFails("copy", rsize - size)
                   /\ Commit(v, uninitialized_copy_n(rhs, size, rsize - size,
                                                     prefix, size, At(f)),
                             capacity_[v], size,
                             lbl("throw", Keep, LiveIn(prefix, size, At(f))))
                \/ /\ f = NoFail
                   /\ Commit(v, IF size < rsize
                                THEN uninitialized_copy_n(rhs, size,
                                         rsize - size, prefix, size,
                                         rsize - size)
                                ELSE prefix,
                             capacity_[v], rsize,
                             lbl("ok", Keep,
                                 size < rsize
                                 /\ LiveIn(prefix, size, rsize - size)))

\* void Reserve(size_t new_capacity)
Reserve(v, n, f) ==
    /\ Callable(v)
    /\ LET size == size_[v]
           buf == buffer_[v]
           k == IF f = NoFail THEN size ELSE At(f)
           r == CopyOrMove(buf, 0, size, Allocate(n), 0, k)
           lbl(out, prov, lost) ==
               Label("Reserve", v, v, n, 0, f, out, 0, prov, lost)
       IN  IF n <= capacity_[v]
           THEN /\ f = NoFail
                /\ Unchanged(v, lbl("ok", Keep, FALSE))
           ELSE /\ Fits(v, n)
                /\ \/ /\ f \in AllocFails
                      /\ Unchanged(v, lbl("throw", Keep, FALSE))
                   \/ /\ f \in RelocFails(size)
                      /\ Commit(v, r.from, capacity_[v], size,
                                lbl("throw", Keep,
                                    r.lost \/ DeallocateLoses(r.to)))
                   \/ /\ f = NoFail
                      /\ Commit(v, r.to, n, size,
                                lbl("ok", [Keep EXCEPT ![v] = "new"],
                                    r.lost \/ DeallocateLoses(r.from)))

\* void Resize(size_t new_size)
Resize(v, n, f) ==
    /\ Callable(v)
    /\ LET size == size_[v]
           buf == buffer_[v]
           grows == n > capacity_[v]
           k == IF Why(f) = RelocWhy THEN At(f) ELSE size
           r == CopyOrMove(buf, 0, size, Allocate(n), 0, k)
           reserved == IF grows THEN r.to ELSE buf
           cap == IF grows THEN n ELSE capacity_[v]
           prov == IF grows THEN [Keep EXCEPT ![v] = "new"] ELSE Keep
           rlost == grows /\ (r.lost \/ DeallocateLoses(r.from))
           lbl(out, pr, lost) ==
               Label("Resize", v, v, n, 0, f, out, 0, pr, lost)
       IN  IF size = n
           THEN /\ f = NoFail
                /\ Unchanged(v, lbl("ok", Keep, FALSE))
           ELSE IF size < n
           THEN /\ grows => Fits(v, n)
                /\ \/ /\ grows /\ f \in AllocFails
                      /\ Unchanged(v, lbl("throw", Keep, FALSE))
                   \/ /\ grows /\ f \in RelocFails(size)
                      /\ Commit(v, r.from, capacity_[v], size,
                                lbl("throw", Keep,
                                    r.lost \/ DeallocateLoses(r.to)))
                   \/ /\ f \in ElemFails("value", n - size)
                      /\ Commit(v, uninitialized_value_construct_n(
                                       reserved, size, n - size, At(f)),
                                cap, size,
                                lbl("throw", prov,
                                    rlost \/ LiveIn(reserved, size, At(f))))
                   \/ /\ f = NoFail
                      /\ Commit(v, uninitialized_value_construct_n(
                                       reserved, size, n - size, n - size),
                                cap, n,
                                lbl("ok", prov,
                                    rlost \/ LiveIn(reserved, size, n - size)))
           ELSE /\ f = NoFail
                /\ Commit(v, destroy_n(buf, n, size - n), capacity_[v], n,
                          lbl("ok", Keep, FALSE))

\* T& EmplaceBack(Args&&... args), and PushBack through it
EmplaceBack(v, x, f) ==
    /\ Callable(v)
    /\ IsRef(x) => (T.copyable /\ RefIndex(x) < size_[v])
    /\ LET size == size_[v]
           buf == buffer_[v]
           new_data == PutAt(Allocate(GrowCap(size)), size, Arg(x, buf))
           k == IF f = NoFail THEN size ELSE At(f)
           r == CopyOrMove(buf, 0, size, new_data, 0, k)
           lbl(out, prov, lost) ==
               Label("EmplaceBack", v, v, 0, x, f, out, 0, prov, lost)
       IN  IF size = capacity_[v]
           THEN /\ Fits(v, GrowCap(size))
                /\ \/ /\ f \in AllocFails \cup CtorFails
                      /\ Unchanged(v, lbl("throw", Keep, FALSE))
                   \/ /\ f \in RelocFails(size)
                      /\ Commit(v, r.from, capacity_[v], size,
                                lbl("throw", Keep,
                                    r.lost \/ DeallocateLoses(r.to)))
                   \/ /\ f = NoFail
                      /\ Commit(v, r.to, GrowCap(size), size + 1,
                                lbl("ok", [Keep EXCEPT ![v] = "new"],
                                    r.lost \/ DeallocateLoses(r.from)))
           ELSE \/ /\ f \in CtorFails
                   /\ Unchanged(v, lbl("throw", Keep, FALSE))
                \/ /\ f = NoFail
                   /\ Commit(v, PutAt(buf, size, Arg(x, buf)), capacity_[v],
                             size + 1, lbl("ok", Keep, Live(buf[size + 1])))

\* A faulty PopBack that moves what is left into a block that just fits.
PopBack_shrink(v) ==
    /\ Callable(v)
    /\ size_[v] > 0
    /\ Commit(v, SubSeq(buffer_[v], 1, size_[v] - 1), size_[v] - 1,
              size_[v] - 1,
              Label("PopBack", v, v, 0, 0, NoFail, "ok", 0,
                    [Keep EXCEPT ![v] = IF size_[v] = 1 THEN "null"
                                        ELSE "new"], FALSE))

\* void PopBack() noexcept; size_ > 0 is its precondition
PopBack(v) ==
    /\ Callable(v)
    /\ size_[v] > 0
    /\ Commit(v, destroy_n(buffer_[v], size_[v] - 1, 1), capacity_[v],
              size_[v] - 1,
              Label("PopBack", v, v, 0, 0, NoFail, "ok", 0, Keep, FALSE))

\* A faulty RawMemory::Swap that assigns without a temporary: both end with
\* what other had.
RawMemorySwap_no_temporary(buf, cap, this, other) ==
    [buffer_ |-> [buf EXCEPT ![this] = buf[other]],
     capacity_ |-> [cap EXCEPT ![this] = cap[other]]]

\* void RawMemory::Swap(RawMemory& other) noexcept, on the blocks buf and
\* the capacities cap of all the RawMemory objects
RawMemorySwap(buf, cap, this, other) ==
    [buffer_ |-> [buf EXCEPT ![this] = buf[other], ![other] = buf[this]],
     capacity_ |-> [cap EXCEPT ![this] = cap[other], ![other] = cap[this]]]

\* The fields after Vector::Swap: std::swap of data_ (a move construction
\* and two move assignments of RawMemory, which exchange the two as
\* RawMemory::Swap does) and std::swap of size_.
SwapFields(buf, cap, size, v, o) ==
    LET d == RawMemorySwap(buf, cap, v, o)
    IN  [buffer_ |-> d.buffer_, capacity_ |-> d.capacity_,
         size_ |-> [size EXCEPT ![v] = size[o], ![o] = size[v]]]

\* void Swap(Vector& other) noexcept
Swap(v, o) ==
    /\ Callable(v) /\ Callable(o)
    /\ LET s == SwapFields(buffer_, capacity_, size_, v, o)
       IN  /\ buffer_' = s.buffer_
           /\ capacity_' = s.capacity_
           /\ size_' = s.size_
    /\ last' = Label("Swap", v, o, 0, 0, NoFail, "ok", 0,
                     [Keep EXCEPT ![v] = Keep[o], ![o] = Keep[v]], FALSE)
    /\ UNCHANGED <<T, alive>>

\* ~Vector, then ~RawMemory of data_
Destroy(v) ==
    /\ Running /\ alive[v]
    /\ alive' = [alive EXCEPT ![v] = FALSE]
    /\ buffer_' = [buffer_ EXCEPT ![v] = Null]
    /\ capacity_' = [capacity_ EXCEPT ![v] = 0]
    /\ size_' = [size_ EXCEPT ![v] = 0]
    /\ last' = Label("~Vector", v, v, 0, 0, NoFail, "ok", 0,
                     [Keep EXCEPT ![v] = "null"],
                     DeallocateLoses(destroy_n(buffer_[v], 0, size_[v])))
    /\ UNCHANGED T

\* iterator Relocate(const_iterator pos, Args&&... args).  Relocating element
\* k throws: in the first CopyOrMove when k < index, in the second otherwise.
Relocate(v, index, x, f) ==
    LET size == size_[v]
        buf == buffer_[v]
        new_data == PutAt(Allocate(GrowCap(size)), index, Arg(x, buf))
        k == IF f = NoFail THEN size ELSE At(f)
        r1 == CopyOrMove(buf, 0, index, new_data, 0,
                         IF k < index THEN k ELSE index)
        r2 == CopyOrMove(r1.from, index, size - index, r1.to, index + 1,
                         k - index)
        lbl(out, ret, prov, lost) ==
            Label("Emplace", v, v, index, x, f, out, ret, prov, lost)
    IN  /\ Fits(v, GrowCap(size))
        /\ \/ /\ f \in AllocFails \cup CtorFails
              /\ Unchanged(v, lbl("throw", 0, Keep, FALSE))
           \/ /\ f \in RelocFails(size) /\ k < index
              /\ Commit(v, r1.from, capacity_[v], size,
                        lbl("throw", 0, Keep,
                            r1.lost \/ DeallocateLoses(r1.to)))
           \/ /\ f \in RelocFails(size) /\ k >= index
              /\ Commit(v, r2.from, capacity_[v], size,
                        lbl("throw", 0, Keep,
                            r1.lost \/ r2.lost \/ DeallocateLoses(r2.to)))
           \/ /\ f = NoFail
              /\ Commit(v, r2.to, GrowCap(size), size + 1,
                        lbl("ok", index, [Keep EXCEPT ![v] = "new"],
                            r1.lost \/ r2.lost \/ DeallocateLoses(r2.from)))

\* The outcome of undefined behaviour that ends the program.
Aborts == <<"abort", 0>>

\* iterator Emplace(const_iterator pos, Args&&... args), and Insert through
\* it; pos in [begin(), end()] is its precondition.  With room left and
\* size_ = 0 line 261 reads data_[size_ - 1], and with pos = end() line 262
\* calls move_backward on the range [end(), end() - 1): undefined behaviour.
\* Its outcomes are an abort (the assert of line 55, a runaway loop) and the
\* run in which the element read outside the block has some value and
\* move_backward moves nothing.
Emplace(v, index, x, f) ==
    /\ Callable(v)
    /\ index <= size_[v]
    /\ IsRef(x) => (T.copyable /\ RefIndex(x) < size_[v])
    /\ LET size == size_[v]
           buf == buffer_[v]
           ended == IF size = 0 THEN PutAt(buf, 0, Indet)
                    ELSE MoveConstructAt(buf, size - 1, size)
           shifted == move_backward(ended, index, size - 1, size)
           lbl(out, ret, lost) ==
               Label("Emplace", v, v, index, x, f, out, ret, Keep, lost)
       IN  IF size = capacity_[v]
           THEN Relocate(v, index, x, f)
           ELSE \/ /\ f = Aborts /\ (size = 0 \/ index = size)
                   /\ Unchanged(v, lbl("crash", 0, FALSE))
                \/ /\ f = <<"move", 0>> /\ ~T.nothrow_move /\ size > 0
                   /\ Unchanged(v, lbl("throw", 0, FALSE))
                \/ /\ f \in CtorFails
                   /\ Commit(v, shifted, capacity_[v], size,
                             lbl("throw", 0, FALSE))
                \/ /\ f = NoFail
                   /\ Commit(v, PutAt(shifted, index, Arg(x, shifted)),
                             capacity_[v], size + 1,
                             lbl("ok", index, FALSE))

\* iterator Erase(const_iterator pos); pos in [begin(), end()) is its
\* precondition
Erase(v, index) ==
    /\ Callable(v)
    /\ index < size_[v]
    /\ LET size == size_[v]
           moved == move(buffer_[v], index + 1, size, index)
       IN  Commit(v, destroy_n(moved, size - 1, 1), capacity_[v], size - 1,
                  Label("Erase", v, v, index, 0, NoFail, "ok", index,
                        Keep, FALSE))

--------------------------------------------------------------------------
(* The program: any operation on any Vector, with any failure. *)

Caps == 0..MaxCap

\* The arguments v's EmplaceBack and Emplace are called with: a value, or,
\* for a copyable element type, a reference to one of v's elements.
Args(v) ==
    Val \cup (IF T.copyable THEN {RefTo(i) : i \in 0..(size_[v] - 1)}
              ELSE {})

\* The arguments an operation that meets failure f is called with.  What a
\* failed EmplaceBack or Emplace leaves does not depend on its argument, so
\* one stands for all.
ArgsMeeting(v, f) == IF f = NoFail THEN Args(v) ELSE {0}

\* The Vectors a member function can be called on.
Callables == {v \in Vec : Callable(v)}

Next ==
    \/ \E v \in Vec : DefaultCtor(v)
    \/ \E v \in Vec : \E n \in Caps :
           \E f \in {NoFail} \cup AllocFails \cup ElemFails("value", n) :
               SizedCtor(v, n, f)
    \/ \E v \in Vec :
           \E f \in {NoFail} \cup AllocFails
                    \cup ElemFails("copy", size_[Other(v)]) :
               CopyCtor(v, Other(v), f)
    \/ \E v \in Vec : MoveCtor(v, Other(v))
    \/ \E v \in Vec : MoveAssign(v, Other(v))
    \/ \E v \in Callables :
           \E f \in {NoFail} \cup AllocFails
                    \cup ElemFails("copy", size_[Other(v)])
                    \cup ElemFails("assign", size_[v]) :
               CopyAssign(v, Other(v), f)
    \/ \E v \in Callables : \E n \in Caps :
           \E f \in {NoFail} \cup AllocFails \cup RelocFails(size_[v]) :
               Reserve(v, n, f)
    \/ \E v \in Callables : \E n \in Caps :
           \E f \in {NoFail} \cup AllocFails \cup RelocFails(size_[v])
                    \cup ElemFails("value", n) :
               Resize(v, n, f)
    \/ \E v \in Callables :
           \E f \in {NoFail} \cup AllocFails \cup CtorFails
                    \cup RelocFails(size_[v]) :
               \E x \in ArgsMeeting(v, f) : EmplaceBack(v, x, f)
    \/ \E v \in Callables : PopBack(v)
    \/ \E v \in Vec : Swap(v, Other(v))
    \/ \E v \in Vec : Destroy(v)
    \/ \E v \in Callables : \E i \in 0..size_[v] :
           \E f \in {NoFail, Aborts, <<"move", 0>>} \cup AllocFails
                    \cup CtorFails \cup RelocFails(size_[v]) :
               \E x \in ArgsMeeting(v, f) : Emplace(v, i, x, f)
    \/ \E v \in Callables : \E i \in 0..(size_[v] - 1) : Erase(v, i)

Spec == Init /\ [][Next]_vars

\* The program in which no element operation throws, no allocation fails
\* and undefined behaviour does not end the program: every operation
\* completes.
NextOK ==
    \/ \E v \in Vec : DefaultCtor(v)
    \/ \E v \in Vec : \E n \in Caps : SizedCtor(v, n, NoFail)
    \/ \E v \in Vec : CopyCtor(v, Other(v), NoFail)
    \/ \E v \in Vec : MoveCtor(v, Other(v))
    \/ \E v \in Vec : MoveAssign(v, Other(v))
    \/ \E v \in Callables : CopyAssign(v, Other(v), NoFail)
    \/ \E v \in Callables : \E n \in Caps : Reserve(v, n, NoFail)
    \/ \E v \in Callables : \E n \in Caps : Resize(v, n, NoFail)
    \/ \E v \in Callables : \E x \in Args(v) : EmplaceBack(v, x, NoFail)
    \/ \E v \in Callables : PopBack(v)
    \/ \E v \in Vec : Swap(v, Other(v))
    \/ \E v \in Vec : Destroy(v)
    \/ \E v \in Callables : \E i \in 0..size_[v] : \E x \in Args(v) :
           Emplace(v, i, x, NoFail)
    \/ \E v \in Callables : \E i \in 0..(size_[v] - 1) : Erase(v, i)

SpecOK == Init /\ [][NextOK]_vars

\* The program that only appends, each PushBack completing: from two
\* default-constructed Vectors, every step is one PushBack on one of them.
NextPush ==
    \E v \in Callables : \E x \in Args(v) : EmplaceBack(v, x, NoFail)

SpecPush == Init /\ [][NextPush]_vars

--------------------------------------------------------------------------
(* The claims *)

\* The elements of v, in order.
Elements(v) == SubSeq(buffer_[v], 1, size_[v])

\* C1: in every state reached by operations that all completed, every Vector
\* has size <= capacity, live elements in the slots [0, size) and no live
\* element in the slots [size, capacity).
C1_Invariant ==
    \A v \in Vec :
        alive[v] =>
            /\ 0 <= size_[v] /\ size_[v] <= capacity_[v]
            /\ \A i \in 0..(size_[v] - 1) : Live(buffer_[v][i + 1])
            /\ \A i \in size_[v]..(capacity_[v] - 1) : ~Live(buffer_[v][i + 1])

\* C2: when EmplaceBack is called with size = capacity and the construction
\* of the new element, or the copy of element k during relocation, throws,
\* the Vector has the size, the capacity and the elements it had.
C2_EmplaceBackStrong ==
    [][\A v \in Vec :
          size_[v] = capacity_[v] =>
              \A x \in Val :
                  \A f \in CtorFails \cup ElemFails("copy", size_[v]) :
                      EmplaceBack(v, x, f) =>
                          /\ last'.out = "throw"
                          /\ size_'[v] = size_[v]
                          /\ capacity_'[v] = capacity_[v]
                          /\ SubSeq(buffer_'[v], 1, size_'[v])
                                 = Elements(v)]_vars

\* C2 happens: a full Vector of at least two elements was appended to and
\* the copy of an element after the first threw.
C2_Witness ==
    /\ last.op = "EmplaceBack"
    /\ last.out = "throw"
    /\ last.why = "copy"
    /\ last.k >= 1
    /\ size_[last.v] = capacity_[last.v]
    /\ size_[last.v] >= 2

\* C3 as stated: when relocating element k (by copy or by move) throws
\* during Reserve(n) with n > capacity, the Vector has its block, size,
\* capacity and elements untouched, and the elements built in the new block
\* were destroyed before the block was released.
C3_ReserveStrong ==
    [][\A v \in Vec : \A n \in (capacity_[v] + 1)..MaxCap :
          \A f \in ElemFails("copy", size_[v])
                   \cup ElemFails("move", size_[v]) :
              Reserve(v, n, f) =>
                  /\ last'.out = "throw"
                  /\ size_'[v] = size_[v]
                  /\ capacity_'[v] = capacity_[v]
                  /\ buffer_'[v] = buffer_[v]
                  /\ last'.prov[v] = v
                  /\ ~last'.lost]_vars

\* C3 amended: the same, when the relocation copies the elements (the
\* element type is copy constructible and its move constructor may throw)
\* and the copy of element k throws.
C3_ReserveStrongCopy ==
    [][\A v \in Vec : \A n \in (capacity_[v] + 1)..MaxCap :
          \A f \in ElemFails("copy", size_[v]) :
              Reserve(v, n, f) =>
                  /\ last'.out = "throw"
                  /\ size_'[v] = size_[v]
                  /\ capacity_'[v] = capacity_[v]
                  /\ buffer_'[v] = buffer_[v]
                  /\ last'.prov[v] = v
                  /\ ~last'.lost]_vars

\* C3 happens: Reserve had copied at least one element into the new block
\* when a copy threw.
C3_Witness ==
    /\ last.op = "Reserve"
    /\ last.out = "throw"
    /\ last.why = "copy"
    /\ last.k >= 1

\* C4: when Emplace is called with size = capacity and the allocation, the
\* construction of the new element, or the copy of element k (before or from
\* the position) throws, the Vector has the size, the capacity and the live
\* elements it had, in the same order.
C4_EmplaceGrowthStrong ==
    [][\A v \in Vec : \A p \in 0..size_[v] : \A x \in Val :
          \A f \in AllocFails \cup CtorFails
                   \cup ElemFails("copy", size_[v]) :
              (size_[v] = capacity_[v] /\ Emplace(v, p, x, f)) =>
                  /\ last'.out = "throw"
                  /\ size_'[v] = size_[v]
                  /\ capacity_'[v] = capacity_[v]
                  /\ SubSeq(buffer_'[v], 1, size_'[v]) = Elements(v)]_vars

\* C5: when the source's size fits the target's capacity and the copy
\* assignment of prefix element k throws, the target keeps its old size and
\* every slot in [0, size) holds a live element.
C5_PrefixThrowValid ==
    [][\A v \in Vec : \A f \in ElemFails("assign", size_[v]) :
          (size_[Other(v)] <= capacity_[v] /\ CopyAssign(v, Other(v), f)) =>
              /\ last'.out = "throw"
              /\ size_'[v] = size_[v]
              /\ \A i \in 0..(size_'[v] - 1) : Live(buffer_'[v][i + 1])]_vars

\* C6: copy assignment from a source larger than the target's capacity: when
\* the allocation or a copy throws, the target's size, capacity and elements
\* are unchanged; otherwise the target has the source's elements in order and
\* the source's size; in both cases the source's size, capacity and elements
\* are unaffected.
C6_CopyAndSwap ==
    [][\A v \in Vec :
          \A f \in {NoFail} \cup AllocFails
                   \cup ElemFails("copy", size_[Other(v)]) :
              (size_[Other(v)] > capacity_[v] /\ CopyAssign(v, Other(v), f)) =>
                  /\ f # NoFail =>
                        /\ last'.out = "throw"
                        /\ size_'[v] = size_[v]
                        /\ capacity_'[v] = capacity_[v]
                        /\ SubSeq(buffer_'[v], 1, size_'[v]) = Elements(v)
                  /\ f = NoFail =>
                        /\ last'.out = "ok"
                        /\ size_'[v] = size_[Other(v)]
                        /\ SubSeq(buffer_'[v], 1, size_'[v])
                               = Elements(Other(v))
                  /\ size_'[Other(v)] = size_[Other(v)]
                  /\ capacity_'[Other(v)] = capacity_[Other(v)]
                  /\ buffer_'[Other(v)] = buffer_[Other(v)]]_vars

\* C6 happens: a Vector was copy-assigned a longer one into a block
\* allocated for it, and holds two different elements.
C6_Witness ==
    /\ last.op = "operator=(copy)"
    /\ last.out = "ok"
    /\ last.prov[last.v] = "new"
    /\ size_[last.v] >= 2
    /\ buffer_[last.v][1] # buffer_[last.v][2]

\* C7: when a = std::move(b) returns for distinct a and b, no block of a or
\* b holds a live element in a slot at or after its owner's size.
C7_MoveAssignDiscards ==
    (last.op = "operator=(move)" /\ last.v # last.o) =>
        \A u \in {last.v, last.o} :
            \A i \in size_[u]..(capacity_[u] - 1) : ~Live(buffer_[u][i + 1])

\* C8: after move construction or move assignment from a distinct source,
\* the source has size 0, capacity 0 and no block.
C8_SourceEmpty ==
    (last.op \in {"Vector(move)", "operator=(move)"} /\ last.v # last.o) =>
        /\ size_[last.o] = 0
        /\ capacity_[last.o] = 0
        /\ buffer_[last.o] = Null
        /\ last.prov[last.o] = "null"

\* C9: for every Vector and every position p in [0, size], with or without
\* room left, Emplace at p, when nothing throws, makes size one more, puts
\* the new element at index p, keeps the elements of [0, p) where they were,
\* puts each element of [p, size) one index higher with its value, and
\* returns p.
C9_EmplaceAt ==
    [][\A v \in Vec : \A p \in 0..size_[v] : \A x \in Val :
          \A f \in {NoFail, Aborts} :
              Emplace(v, p, x, f) =>
                  /\ last'.out = "ok"
                  /\ size_'[v] = size_[v] + 1
                  /\ buffer_'[v][p + 1] = x
                  /\ \A i \in 0..(p - 1) :
                         buffer_'[v][i + 1] = buffer_[v][i + 1]
                  /\ \A i \in p..(size_[v] - 1) :
                         buffer_'[v][i + 2] = buffer_[v][i + 1]
                  /\ last'.ret = p]_vars

\* C10: for every non-empty array and every position p in [0, size),
\* Erase(p) removes exactly the element at p: the elements before p stay,
\* each element after p moves down by one with its value, size decreases by
\* exactly 1, capacity is unchanged, and the position returned is p.
C10_Erase ==
    [][\A v \in Vec : \A p \in 0..(size_[v] - 1) :
          Erase(v, p) =>
            /\ size_'[v] = size_[v] - 1
            /\ capacity_'[v] = capacity_[v]
            /\ \A i \in 0..(p - 1) : buffer_'[v][i + 1] = buffer_[v][i + 1]
            /\ \A i \in (p + 1)..(size_[v] - 1) :
                   buffer_'[v][i] = buffer_[v][i + 1]
            /\ ~Live(buffer_'[v][size_[v]])
            /\ last'.ret = p
            /\ last'.out = "ok"]_vars

\* C10 happens: an element with elements on both sides was erased.
C10_Witness ==
    /\ last.op = "Erase"
    /\ last.ret > 0
    /\ last.ret < size_[last.v]

\* The smallest power of two that is at least k, from p up.
RECURSIVE Pow2From(_, _)
Pow2From(p, k) == IF p >= k THEN p ELSE Pow2From(2 * p, k)

\* C11: from a default-constructed Vector, every PushBack makes size one
\* more, so that after k of them size is k; the capacity is then the
\* smallest power of two >= k; the capacity never decreases, and it changes
\* exactly on a push made with size = capacity, where it becomes
\* max(1, 2 * size).
C11_PushGrowth ==
    /\ [](\A v \in Vec :
             size_[v] >= 1 => capacity_[v] = Pow2From(1, size_[v]))
    /\ [][\A v \in Vec : \A x \in Val :
             EmplaceBack(v, x, NoFail) =>
                 /\ size_'[v] = size_[v] + 1
                 /\ capacity_'[v] >= capacity_[v]
                 /\ (capacity_'[v] # capacity_[v]) <=>
                        (size_[v] = capacity_[v])
                 /\ size_[v] = capacity_[v] =>
                        capacity_'[v] = (IF 2 * size_[v] > 1
                                         THEN 2 * size_[v] ELSE 1)]_vars

\* C11 happens: the third PushBack grew the capacity from 2 to 4.
C11_Witness ==
    /\ last.op = "EmplaceBack"
    /\ last.prov[last.v] = "new"
    /\ size_[last.v] = 3
    /\ capacity_[last.v] = 4

\* C12: when the construction of element k throws during Vector(n) or
\* Vector(const Vector&), the elements already built in the new block were
\* destroyed before the block was released, the Vector under construction
\* does not exist and holds no block, and the copy source is unchanged.
C12_CtorRollback ==
    [][\A v \in Vec :
          /\ \A n \in Caps : \A f \in ElemFails("value", n) :
                SizedCtor(v, n, f) =>
                    /\ last'.out = "throw"
                    /\ ~last'.lost
                    /\ ~alive'[v]
                    /\ buffer_'[v] = Null /\ capacity_'[v] = 0
                    /\ last'.prov[v] = "null"
          /\ \A f \in ElemFails("copy", size_[Other(v)]) :
                CopyCtor(v, Other(v), f) =>
                    /\ last'.out = "throw"
                    /\ ~last'.lost
                    /\ ~alive'[v]
                    /\ buffer_'[v] = Null /\ capacity_'[v] = 0
                    /\ last'.prov[v] = "null"
                    /\ size_'[Other(v)] = size_[Other(v)]
                    /\ capacity_'[Other(v)] = capacity_[Other(v)]
                    /\ buffer_'[Other(v)] = buffer_[Other(v)]]_vars

\* C12 happens: a copy construction had built at least one element when a
\* copy threw.
C12_Witness ==
    /\ last.op = "Vector(copy)"
    /\ last.out = "throw"
    /\ last.why = "copy"
    /\ last.k >= 1

\* The operations that change both of their operands.
TwoVectorOps == {"Vector(move)", "operator=(move)", "Swap"}

\* C13: copy construction yields a Vector whose capacity and size are the
\* source's size, with the same elements in the same order, in a block of
\* its own, and leaves the source as it was; and every operation applied to
\* one Vector (or reading the other as the source of a copy) leaves the
\* size, capacity, block and elements of the other unchanged.
C13_CopyIndependent ==
    [][\A v \in Vec :
          /\ CopyCtor(v, Other(v), NoFail) =>
                /\ alive'[v]
                /\ capacity_'[v] = size_[Other(v)]
                /\ size_'[v] = size_[Other(v)]
                /\ SubSeq(buffer_'[v], 1, size_'[v]) = Elements(Other(v))
                /\ last'.prov[v] =
                       (IF size_[Other(v)] = 0 THEN "null" ELSE "new")
          /\ (last'.v = v /\ last'.op \notin TwoVectorOps) =>
                /\ alive'[Other(v)] = alive[Other(v)]
                /\ size_'[Other(v)] = size_[Other(v)]
                /\ capacity_'[Other(v)] = capacity_[Other(v)]
                /\ buffer_'[Other(v)] = buffer_[Other(v)]
                /\ last'.prov[Other(v)] =
                       (IF buffer_[Other(v)] = Null THEN "null"
                        ELSE Other(v))]_vars

\* C13 happens: a Vector was copy-constructed from one holding two
\* different elements.
C13_Witness ==
    /\ last.op = "Vector(copy)"
    /\ last.out = "ok"
    /\ size_[last.v] >= 2
    /\ buffer_[last.v][1] # buffer_[last.v][2]
    /\ buffer_[last.o] = buffer_[last.v]

\* C14: move construction, and move assignment from a distinct source, give
\* the target the source's block with every slot as it was (no element is
\* copied, constructed or relocated), the source's capacity and size, and
\* leave the source with size 0.
C14_MoveTransfers ==
    [][\A v \in Vec :
          (MoveCtor(v, Other(v)) \/ MoveAssign(v, Other(v))) =>
              /\ buffer_'[v] = buffer_[Other(v)]
              /\ capacity_'[v] = capacity_[Other(v)]
              /\ size_'[v] = size_[Other(v)]
              /\ last'.prov[v] =
                     (IF buffer_[Other(v)] = Null THEN "null" ELSE Other(v))
              /\ size_'[Other(v)] = 0]_vars

\* C14 happens: a Vector was move-assigned the block of one holding two
\* different elements.
C14_Witness ==
    /\ last.op = "operator=(move)"
    /\ last.prov[last.v] = last.o
    /\ size_[last.v] >= 2
    /\ buffer_[last.v][1] # buffer_[last.v][2]

\* C15: EmplaceBack and Emplace called with size < capacity, Reserve(n) and
\* Resize(n) with n <= capacity, Erase and PopBack, however they end, leave
\* the Vector with the block it had and with the capacity it had.
C15_NoReallocation ==
    [][\A v \in Vec :
          LET Same == /\ capacity_'[v] = capacity_[v]
                      /\ Len(buffer_'[v]) = Len(buffer_[v])
                      /\ last'.prov[v] =
                             (IF buffer_[v] = Null THEN "null" ELSE v)
              op == last'.op
          IN  last'.v = v =>
                /\ (op \in {"EmplaceBack", "Emplace"}
                       /\ size_[v] < capacity_[v]) => Same
                /\ op \in {"Erase", "PopBack"} => Same
                /\ op = "Reserve" =>
                      \A n \in 0..capacity_[v] :
                          Reserve(v, n, NoFail) => Same
                /\ op = "Resize" =>
                      \A n \in 0..capacity_[v] :
                          \A f \in {NoFail} \cup ElemFails("value", n) :
                              Resize(v, n, f) => Same]_vars

\* C15 happens: an element was inserted at the front of a Vector that had
\* room left, in the block the Vector had.
C15_Witness ==
    /\ last.op = "Emplace"
    /\ last.out = "ok"
    /\ last.ret = 0
    /\ last.prov[last.v] = last.v
    /\ size_[last.v] >= 2

\* C16: after a Resize(n) that completes on a Vector of size s and capacity
\* c, size is n, the elements at [0, min(s, n)) are unchanged, every element
\* at [s, n) is T(), the elements formerly at [n, s) are destroyed, and the
\* capacity is c when n <= c and n when n > c.
C16_Resize ==
    [][\A v \in Vec : \A n \in Caps :
          (last'.op = "Resize" /\ Resize(v, n, NoFail)) =>
              /\ last'.out = "ok"
              /\ size_'[v] = n
              /\ \A i \in 0..(size_[v] - 1) :
                     i < n => buffer_'[v][i + 1] = buffer_[v][i + 1]
              /\ \A i \in size_[v]..(n - 1) : buffer_'[v][i + 1] = 0
              /\ \A i \in n..(size_[v] - 1) : ~Live(buffer_'[v][i + 1])
              /\ capacity_'[v] =
                     (IF n <= capacity_[v] THEN capacity_[v] ELSE n)]_vars

\* C16 happens: a Resize moved an element into a larger block and built
\* T() after it.
C16_Witness ==
    /\ last.op = "Resize"
    /\ last.out = "ok"
    /\ last.prov[last.v] = "new"
    /\ size_[last.v] >= 2
    /\ buffer_[last.v][1] = 1
    /\ buffer_[last.v][size_[last.v]] = 0

\* C17 as stated: when value construction throws in a growing Resize(n)
\* after at least one tail element was built, the Vector is left with size
\* still the old size and a live element in some slot of [old size, n).
C17_TailLeftConstructed ==
    [][\A v \in Vec : \A n \in (size_[v] + 1)..MaxCap :
          \A f \in ElemFails("value", n - size_[v]) :
              (last'.op = "Resize" /\ At(f) >= 1 /\ Resize(v, n, f)) =>
                  /\ size_'[v] = size_[v]
                  /\ \E i \in size_[v]..(n - 1) :
                         Live(buffer_'[v][i + 1])]_vars

\* C17 amended: when value construction throws in a growing Resize(n), the
\* tail elements already built were destroyed: size is the old size, no slot
\* of [old size, n) holds a live element, the elements keep their values, and
\* the capacity is n if n exceeded it (the relocation of Reserve stays) and
\* unchanged otherwise.
C17_TailRolledBack ==
    [][\A v \in Vec : \A n \in (size_[v] + 1)..MaxCap :
          \A f \in ElemFails("value", n - size_[v]) :
              (last'.op = "Resize" /\ Resize(v, n, f)) =>
                  /\ last'.out = "throw"
                  /\ ~last'.lost
                  /\ size_'[v] = size_[v]
                  /\ \A i \in size_[v]..(n - 1) : ~Live(buffer_'[v][i + 1])
                  /\ SubSeq(buffer_'[v], 1, size_'[v]) = Elements(v)
                  /\ capacity_'[v] =
                         (IF n <= capacity_[v] THEN capacity_[v] ELSE n)]_vars

\* C17 happens: a Resize had built at least one tail element when a value
\* construction threw.
C17_Witness ==
    /\ last.op = "Resize"
    /\ last.out = "throw"
    /\ last.why = "value"
    /\ last.k >= 1

\* C18: a.Swap(b) gives a the block (every slot as it was), capacity and
\* size b had and b those a had, releasing nothing; RawMemory::Swap
\* exchanges block and capacity likewise; and either Swap applied twice
\* restores what was.
C18_SwapExchanges ==
    /\ [][\A v \in Vec :
             Swap(v, Other(v)) =>
                 /\ buffer_'[v] = buffer_[Other(v)]
                 /\ buffer_'[Other(v)] = buffer_[v]
                 /\ capacity_'[v] = capacity_[Other(v)]
                 /\ capacity_'[Other(v)] = capacity_[v]
                 /\ size_'[v] = size_[Other(v)]
                 /\ size_'[Other(v)] = size_[v]
                 /\ last'.prov[v] =
                        (IF buffer_[Other(v)] = Null THEN "null"
                         ELSE Other(v))
                 /\ last'.prov[Other(v)] =
                        (IF buffer_[v] = Null THEN "null" ELSE v)
                 /\ ~last'.lost]_vars
    /\ [](\A v \in Vec :
             LET o == Other(v)
                 r1 == RawMemorySwap(buffer_, capacity_, v, o)
                 r2 == RawMemorySwap(r1.buffer_, r1.capacity_, v, o)
                 s1 == SwapFields(buffer_, capacity_, size_, v, o)
                 s2 == SwapFields(s1.buffer_, s1.capacity_, s1.size_, v, o)
             IN  /\ r1.buffer_[v] = buffer_[o] /\ r1.buffer_[o] = buffer_[v]
                 /\ r1.capacity_[v] = capacity_[o]
                 /\ r1.capacity_[o] = capacity_[v]
                 /\ r2.buffer_ = buffer_ /\ r2.capacity_ = capacity_
                 /\ s2.buffer_ = buffer_ /\ s2.capacity_ = capacity_
                 /\ s2.size_ = size_)

\* C18 happens: two Vectors of different non-zero sizes were swapped.
C18_Witness ==
    /\ last.op = "Swap"
    /\ size_[last.v] >= 1
    /\ size_[last.o] >= 1
    /\ size_[last.v] # size_[last.o]

\* C19: no operation, however it ends, and no destruction of a Vector
\* releases a block in which a slot still holds a live element (or builds an
\* element over one): every element built is destroyed before its block is
\* released.
C19_NoElementLost == ~last.lost

\* C20: when the argument of PushBack or of Insert at p is a reference to
\* element i of the same Vector, and nothing throws, the element inserted
\* has the value element i had before the call and the other elements keep
\* the values they had, with room left as well as on growth.
C20_AliasedArgument ==
    [][\A v \in Vec : \A i \in 0..(size_[v] - 1) :
          /\ EmplaceBack(v, RefTo(i), NoFail) =>
                /\ buffer_'[v][size_[v] + 1] = buffer_[v][i + 1]
                /\ \A j \in 0..(size_[v] - 1) :
                       buffer_'[v][j + 1] = buffer_[v][j + 1]
          /\ \A p \in 0..size_[v] :
                Emplace(v, p, RefTo(i), NoFail) =>
                    /\ buffer_'[v][p + 1] = buffer_[v][i + 1]
                    /\ \A j \in 0..(p - 1) :
                           buffer_'[v][j + 1] = buffer_[v][j + 1]
                    /\ \A j \in p..(size_[v] - 1) :
                           buffer_'[v][j + 2] = buffer_[v][j + 1]]_vars

====
